---- MODULE Spec2Model ----
(***************************************************************************)
(* A model of the Brainfuck compiler and interpreter of src/src/lib.rs and *)
(* of the tapes of src/src/tape.  Indices are 0-based as in the Rust code;  *)
(* a sequence s is read at Rust index i as s[i + 1].                       *)
(***************************************************************************)
EXTENDS Integers, Sequences, FiniteSets, TLC

(***************************************************************************)
(* Bounds of the model.                                                    *)
(***************************************************************************)
\* longest source text over the whole alphabet
MaxLen == 4
\* longest program that is executed
MaxProg == 3
\* longest source text made of brackets only (deeper nesting)
MaxBrackets == 6
\* largest capacity of a supplied tape
MaxCap == 2
\* largest data pointer a `>` is followed to on a growing tape
MaxPtr == 3
\* largest data pointer followed in the execution of LoopProgram
LoopMaxPtr == 40
\* longest recorded output of one run
MaxOut == 2
\* number of bytes the byte source holds before it yields zero
MaxIn == 1
\* the largest small index at which a tape is accessed on its own
MaxIndex == 3
\* the longest program of loops that is executed beside the reference
MaxNest == 5

(***************************************************************************)
(* Source text.                                                            *)
(***************************************************************************)
\* lib.rs:15
VALID_CHARS == {">", "<", "+", "-", ".", ",", "[", "]"}

\* the characters source texts are drawn from: the eight instructions, one
\* character that is no instruction, the line feed and the carriage return
Chars == VALID_CHARS \cup {"x", "\n", "\r"}

SeqsUpTo(S, n) == UNION {[1..k -> S] : k \in 0..n}

Sources == SeqsUpTo(Chars, MaxLen) \cup SeqsUpTo({"[", "]"}, MaxBrackets)

\* BrainfuckInstruction: the variant, and the offset of the two jumps
Instr(op, offset) == [op |-> op, offset |-> offset]

\* a line without the carriage return that ends it
strip_cr(line) ==
    IF line # <<>> /\ line[Len(line)] = "\r" THEN SubSeq(line, 1, Len(line) - 1)
    ELSE line

\* str::lines as parse_input uses it: a line ends at each line feed, without
\* the carriage return before the line feed, and what follows the last line
\* feed is a line when it is not empty
RECURSIVE lines(_, _, _)
lines(input, i, cur) ==
    IF i > Len(input)
    THEN IF cur = <<>> THEN <<>> ELSE <<cur>>
    ELSE IF input[i] = "\n"
         THEN <<strip_cr(cur)>> \o lines(input, i + 1, <<>>)
         ELSE lines(input, i + 1, Append(cur, input[i]))

\* the match of parse_input (lib.rs:132-142)
instr_of(character) ==
    CASE character = ">" -> Instr("IncrementDataPointer", 0)
      [] character = "<" -> Instr("DecrementDataPointer", 0)
      [] character = "+" -> Instr("IncreaseData", 0)
      [] character = "-" -> Instr("DecreaseData", 0)
      [] character = "." -> Instr("Output", 0)
      [] character = "," -> Instr("Input", 0)
      [] character = "[" -> Instr("JumpForward", 0)
      [] character = "]" -> Instr("JumpBackwards", 0)

\* parse_input counting the instructions of a line, not its characters
RECURSIVE parse_line_counting_instructions(_, _, _, _)
parse_line_counting_instructions(line, k, line_ind, char_ind) ==
    IF k > Len(line) THEN <<>>
    ELSE IF line[k] \in VALID_CHARS
         THEN <<[instruction |-> instr_of(line[k]),
                 line |-> line_ind, character |-> char_ind + 1]>>
              \o parse_line_counting_instructions(line, k + 1, line_ind, char_ind + 1)
         ELSE parse_line_counting_instructions(line, k + 1, line_ind, char_ind)

\* the inner loop of parse_input over the characters of one line
RECURSIVE parse_line(_, _, _, _)
parse_line(line, k, line_ind, char_ind) ==
    IF k > Len(line) THEN <<>>
    ELSE LET ci == char_ind + 1
         IN  IF line[k] \in VALID_CHARS
             THEN <<[instruction |-> instr_of(line[k]),
                     line |-> line_ind, character |-> ci]>>
                  \o parse_line(line, k + 1, line_ind, ci)
             ELSE parse_line(line, k + 1, line_ind, ci)

\* parse_input reading the first of the lines only
parse_lines_first_only(ls, n, line_ind) ==
    IF n > Len(ls) THEN <<>> ELSE parse_line(ls[n], 1, line_ind, 0)

\* the outer loop of parse_input: char_ind restarts at 0 on every line
RECURSIVE parse_lines(_, _, _)
parse_lines(ls, n, line_ind) ==
    IF n > Len(ls) THEN <<>>
    ELSE parse_line(ls[n], 1, line_ind, 0) \o parse_lines(ls, n + 1, line_ind + 1)

parse_input(input) == parse_lines(lines(input, 1, <<>>), 1, 0)

Ok(v) == [ok |-> TRUE, val |-> v]
Err(kind, span) == [ok |-> FALSE, kind |-> kind, span |-> span]

\* find_closer returning the distance to the `]` itself
CloserOffsetOnCloser(calculated_offset) == calculated_offset

\* what find_closer returns at the `]` it stops at (lib.rs:172)
CloserOffset(calculated_offset) == calculated_offset + 1

\* the loop of find_closer: k is the Rust index of the next instruction
RECURSIVE closer_scan(_, _, _, _, _)
closer_scan(index, instructions, k, calculated_offset, extra_openers) ==
    IF k >= Len(instructions)
    THEN Err("MissingClosingBrace", instructions[index + 1])
    ELSE LET off == calculated_offset + 1
             op == instructions[k + 1].instruction.op
         IN  IF op = "JumpBackwards"
             THEN IF extra_openers = 0
                  THEN Ok(CloserOffset(off))
                  ELSE closer_scan(index, instructions, k + 1, off, extra_openers - 1)
             ELSE IF op = "JumpForward"
                  THEN closer_scan(index, instructions, k + 1, off, extra_openers + 1)
                  ELSE closer_scan(index, instructions, k + 1, off, extra_openers)

\* find_closer with skip(index): the scan starts at the `[` itself
find_closer_from_self(index, instructions) ==
    closer_scan(index, instructions, index, 0, 0)

find_closer(index, instructions) ==
    closer_scan(index, instructions, index + 1, 0, 0)

\* find_opener returning the distance to the `[` itself
OpenerOffsetOnOpener(calculated_offset) == calculated_offset

\* what find_opener returns at the `[` it stops at (lib.rs:202)
OpenerOffset(calculated_offset) == calculated_offset - 1

\* the loop of find_opener: k is the Rust index of the next instruction of
\* the reversed iterator, -1 when it is exhausted
RECURSIVE opener_scan(_, _, _, _, _)
opener_scan(index, instructions, k, calculated_offset, extra_closers) ==
    IF k < 0
    THEN Err("MissingOpeningBrace", instructions[index + 1])
    ELSE LET off == calculated_offset + 1
             op == instructions[k + 1].instruction.op
         IN  IF op = "JumpForward"
             THEN IF extra_closers = 0
                  THEN Ok(OpenerOffset(off))
                  ELSE opener_scan(index, instructions, k - 1, off, extra_closers - 1)
             ELSE IF op = "JumpBackwards"
                  THEN opener_scan(index, instructions, k - 1, off, extra_closers + 1)
                  ELSE opener_scan(index, instructions, k - 1, off, extra_closers)

\* find_opener with skip(len - index - 1): the scan starts at the `]` itself
find_opener_from_self(index, instructions) ==
    opener_scan(index, instructions, index, 0, 0)

\* rev().skip(len - index) starts at Rust index index - 1
find_opener(index, instructions) ==
    opener_scan(index, instructions, index - 1, 0, 0)

\* the loop of compile over the spans; done holds the resolved instructions
RECURSIVE resolve(_, _, _)
resolve(clone, index, done) ==
    IF index >= Len(clone) THEN Ok(done)
    ELSE LET op == clone[index + 1].instruction.op
             r == IF op = "JumpForward" THEN find_closer(index, clone)
                  ELSE IF op = "JumpBackwards" THEN find_opener(index, clone)
                  ELSE Ok(0)
         IN  IF ~r.ok THEN r
             ELSE resolve(clone, index + 1, Append(done, Instr(op, r.val)))

\* compile without the tape: the instruction list, or the error
compile(input) == resolve(parse_input(input), 0, <<>>)

(***************************************************************************)
(* Machine integers, cells and tapes.                                      *)
(***************************************************************************)
\* usize::MAX.  The model's integers stop at 2^31 - 1, which stands for it:
\* only MAX + 1 = 0, 0 - 1 = MAX and comparisons with lengths are used.
USIZE_MAX == 2147483647

\* isize::MAX, the largest capacity a Vec may ask for
ISIZE_MAX == USIZE_MAX \div 2

Builds == {"debug", "release"}

\* a + b on usize: the debug build panics on overflow, the release build wraps
usize_add(a, b, b_mode) ==
    IF a > USIZE_MAX - b
    THEN IF b_mode = "debug" THEN [panic |-> TRUE, val |-> 0]
         ELSE [panic |-> FALSE, val |-> (a - USIZE_MAX - 1) + b]
    ELSE [panic |-> FALSE, val |-> a + b]

\* a - b on usize
usize_sub(a, b, b_mode) ==
    IF b > a
    THEN IF b_mode = "debug" THEN [panic |-> TRUE, val |-> 0]
         ELSE [panic |-> FALSE, val |-> ((a - b) + USIZE_MAX) + 1]
    ELSE [panic |-> FALSE, val |-> a - b]

\* u8::increase without the wrap: 255 stays 255
increase_saturating(d) == IF d = 255 THEN 255 ELSE d + 1

\* TapeData for u8 (tape/mod.rs:14-27)
zero == 0
increase(d) == (d + 1) % 256
decrease(d) == (d + 255) % 256

Zeros(n) == [k \in 1..n |-> zero]

\* the values a read through a reference outside the allocation may yield
Garbage == {0, 1}

\* the first cell values of a supplied tape
InitCells == {0, 1}

TapeKinds == {"array", "vec"}

\* a Vec that does not grow: no cell past its length
vec_get_data_at_mut_fixed(t, index, b_mode) ==
    IF index < Len(t) THEN [cell |-> "some", tape |-> t]
    ELSE [cell |-> "none", tape |-> t]

\* impl Tape for Vec<D>: get_data_at_mut.  cell is "some" for a cell of the
\* tape, "wild" for get_unchecked_mut past the end (index + 1 wrapped to 0
\* and resize(0) emptied the vector), "panic" when index + 1 overflows in a
\* debug build or the resize asks for more than isize::MAX cells.
vec_get_data_at_mut(t, index, b_mode) ==
    IF Len(t) <= index
    THEN LET n == usize_add(index, 1, b_mode)
         IN  IF n.panic \/ n.val > ISIZE_MAX
             THEN [cell |-> "panic", tape |-> t]
             ELSE IF n.val > Len(t)
                  THEN [cell |-> "some", tape |-> t \o Zeros(n.val - Len(t))]
                  ELSE [cell |-> "wild", tape |-> SubSeq(t, 1, n.val)]
    ELSE [cell |-> "some", tape |-> t]

\* impl Tape for [D; N] (and for &mut [D]): get_data_at_mut
array_get_data_at_mut(t, index) ==
    IF index < Len(t) THEN [cell |-> "some", tape |-> t]
    ELSE [cell |-> "none", tape |-> t]

get_data_at_mut(kind, t, index, b_mode) ==
    IF kind = "vec" THEN vec_get_data_at_mut(t, index, b_mode)
    ELSE array_get_data_at_mut(t, index)

\* a reset that leaves the cells as they are
tape_reset_keeps(t) == t

\* Tape::reset of both tapes: every cell to zero, the length kept
tape_reset(t) == [k \in 1..Len(t) |-> zero]

(***************************************************************************)
(* The program and its caller.                                             *)
(***************************************************************************)
VARIABLES
    source,               \* the text given to compile
    build,                \* the build of the crate: debug or release
    phase,                \* new | error | ready | panicked
    error,                \* the Error compile returned, or NoError
    instructions,         \* BrainfuckProgram::instructions
    instruction_pointer,  \* BrainfuckProgram::instruction_pointer
    data_pointer,         \* BrainfuckProgram::data_pointer
    tape_kind,            \* the type T of the tape: array or vec
    tape,                 \* BrainfuckProgram::tape
    last,                 \* the last call of the caller and what it returned
    out,                  \* the values the sink received since run was called
    in_seq,               \* the bytes the source holds, fixed once read
    in_pos,               \* the number of bytes the source gave since run was called
    in_run,               \* no | fresh | stale: inside run, called right after a reset or not
    just_reset,           \* no step was made since the last reset
    runs                  \* the results of the runs made in a row, each from a reset

vars == <<source, build, phase, error, instructions, instruction_pointer,
          data_pointer, tape_kind, tape, last, out, in_seq, in_pos, in_run,
          just_reset, runs>>

NoError == [kind |-> "none"]
NoCall == [call |-> "none"]

\* the bytes a source may give
InBytes == {0, 255}

\* the tapes a caller may supply: every cell holds the same value
InitTapes == {[k \in 1..n |-> c] : n \in 0..MaxCap, c \in InitCells}

\* the texts a program that is executed is compiled from
Programs == SeqsUpTo(VALID_CHARS, MaxProg)

\* the state before compile is called
Init ==
    /\ source = <<>>
    /\ build = "debug"
    /\ phase = "new"
    /\ error = NoError
    /\ instructions = <<>>
    /\ instruction_pointer = 0
    /\ data_pointer = 0
    /\ tape_kind = "array"
    /\ tape = <<>>
    /\ last = NoCall
    /\ out = <<>>
    /\ in_seq = <<>>
    /\ in_pos = 0
    /\ in_run = "no"
    /\ just_reset = FALSE
    /\ runs = <<>>

\* BrainfuckProgram::compile(input, t) with a tape of type kind, in a build
CompileWith(input, kind, t, b_mode) ==
    /\ source' = input
    /\ build' = b_mode
    /\ tape_kind' = kind
    /\ LET r == compile(input)
       IN  IF r.ok
           THEN /\ phase' = "ready"
                /\ error' = NoError
                /\ instructions' = r.val
                /\ tape' = t
           ELSE /\ phase' = "error"
                /\ error' = [kind |-> r.kind, line |-> r.span.line,
                             character |-> r.span.character]
                /\ instructions' = <<>>
                /\ tape' = <<>>
    /\ instruction_pointer' = 0
    /\ data_pointer' = 0
    /\ last' = [call |-> "compile"]
    /\ UNCHANGED <<out, in_seq, in_pos, in_run, just_reset, runs>>

\* compile of any text: the tape plays no part in the result
CompileAny ==
    /\ phase = "new"
    /\ \E input \in Sources : CompileWith(input, "array", <<>>, "debug")

\* compile of a program that is then executed
Compile ==
    /\ phase = "new"
    /\ \E input \in Programs, kind \in TapeKinds, t \in InitTapes, b_mode \in Builds :
            CompileWith(input, kind, t, b_mode)

\* the bytes the source may give at its next call: the byte it holds at that
\* place, or any byte when it holds none there yet
SourceBytes == IF in_pos < Len(in_seq) THEN {in_seq[in_pos + 1]} ELSE InBytes

\* *data = v through the reference get_data_at_mut gave; a write through a
\* reference outside the allocation leaves the tape as it is
store(t, cell, index, v) ==
    IF cell = "wild" THEN t ELSE [t EXCEPT ![index + 1] = v]

\* a JumpForward that goes on with the next instruction
forward_target_falls_through(ip, offset, b_mode) == usize_add(ip, 1, b_mode)

\* where a taken JumpForward leaves the instruction pointer (lib.rs:293)
forward_target(ip, offset, b_mode) == usize_add(ip, offset, b_mode)

\* a JumpBackwards that goes back to before the opening bracket
backward_target_before_opener(ip, offset, b_mode) == usize_sub(ip, offset + 2, b_mode)

\* where a taken JumpBackwards leaves the instruction pointer (lib.rs:299)
backward_target(ip, offset, b_mode) == usize_sub(ip, offset, b_mode)

\* the match of step on the instruction (lib.rs:272-305), on the cell value d
\* behind the reference of kind cell into tape t, with b the byte the source
\* gives if it is called
execute(instruction, cell, d, t, b) ==
    LET op == instruction.op
        ip == instruction_pointer
        dp == data_pointer
        adv == [panic |-> FALSE, ip |-> ip + 1, dp |-> dp, tape |-> t,
                out |-> out, in_seq |-> in_seq, in_pos |-> in_pos]
    IN  CASE op = "IncrementDataPointer" ->
               LET n == usize_add(dp, 1, build)
               IN  [adv EXCEPT !.panic = n.panic, !.dp = n.val]
          [] op = "DecrementDataPointer" ->
               LET n == usize_sub(dp, 1, build)
               IN  [adv EXCEPT !.panic = n.panic, !.dp = n.val]
          [] op = "IncreaseData" ->
               [adv EXCEPT !.tape = store(t, cell, dp, increase(d))]
          [] op = "DecreaseData" ->
               [adv EXCEPT !.tape = store(t, cell, dp, decrease(d))]
          [] op = "Output" ->
               [adv EXCEPT !.out = Append(out, d)]
          [] op = "Input" ->
               [adv EXCEPT !.tape = store(t, cell, dp, b),
                           !.in_seq = IF in_pos < Len(in_seq) THEN in_seq
                                      ELSE Append(in_seq, b),
                           !.in_pos = in_pos + 1]
          [] op = "JumpForward" ->
               IF d = zero
               THEN LET n == forward_target(ip, instruction.offset, build)
                    IN  [adv EXCEPT !.panic = n.panic, !.ip = n.val]
               ELSE adv
          [] op = "JumpBackwards" ->
               IF d # zero
               THEN LET n == backward_target(ip, instruction.offset, build)
                    IN  [adv EXCEPT !.panic = n.panic, !.ip = n.val]
               ELSE adv

\* what is recorded of a call of step
StepCall(ret, op) ==
    [call |-> "step", ret |-> ret, op |-> op, ip |-> instruction_pointer,
     dp |-> data_pointer, after |-> last.call]

\* the result of a run, as the caller sees it when run returns
RunResult(t) ==
    [out |-> out, ip |-> instruction_pointer, dp |-> data_pointer, tape |-> t]

\* step panics: the caller gets no program back
Panics(op) ==
    /\ phase' = "panicked"
    /\ last' = StepCall("panic", op)
    /\ UNCHANGED <<source, build, error, instructions, instruction_pointer,
                   data_pointer, tape_kind, tape, out, in_seq, in_pos, in_run,
                   just_reset, runs>>

\* step returns Err(()): the loop of run ends
Halts(t) ==
    /\ tape' = t
    /\ last' = StepCall("halted", "none")
    /\ just_reset' = FALSE
    /\ in_run' = "no"
    /\ runs' = IF in_run = "fresh"
               THEN IF Len(runs) = 2 THEN <<runs[2], RunResult(t)>>
                    ELSE Append(runs, RunResult(t))
               ELSE IF in_run = "stale" THEN runs ELSE <<>>
    /\ UNCHANGED <<source, build, phase, error, instructions, instruction_pointer,
                   data_pointer, tape_kind, out, in_seq, in_pos>>

\* step returns Ok(()) with the effect e of execute
Returns(e, op) ==
    /\ instruction_pointer' = e.ip
    /\ data_pointer' = e.dp
    /\ tape' = e.tape
    /\ out' = e.out
    /\ in_seq' = e.in_seq
    /\ in_pos' = e.in_pos
    /\ last' = StepCall("ok", op)
    /\ just_reset' = FALSE
    /\ runs' = IF in_run = "no" THEN <<>> ELSE runs
    /\ UNCHANGED <<source, build, phase, error, instructions, tape_kind, in_run>>

\* the bounds of the model: which instructions are followed
Followed(instruction, cap) ==
    /\ instruction.op = "IncrementDataPointer" /\ tape_kind = "vec"
         => data_pointer < cap \/ data_pointer > ISIZE_MAX
    /\ instruction.op = "Output" => Len(out) < MaxOut
    /\ instruction.op = "Input" => in_pos < MaxIn

\* BrainfuckProgram::step, called by the caller or by the loop of run
StepWith(cap) ==
    /\ phase = "ready"
    /\ LET g == get_data_at_mut(tape_kind, tape, data_pointer, build)
           halted == instruction_pointer >= Len(instructions)
           instruction == IF halted THEN Instr("none", 0)
                          ELSE instructions[instruction_pointer + 1]
       IN  IF g.cell \in {"none", "panic"}
           THEN Panics(instruction.op)
           ELSE \E crash \in (IF g.cell = "wild" THEN BOOLEAN ELSE {FALSE}),
                   d \in (IF g.cell = "wild" THEN Garbage
                          ELSE {g.tape[data_pointer + 1]}),
                   b \in (IF instruction.op = "Input" THEN SourceBytes ELSE {zero}) :
                    IF crash THEN Panics(instruction.op)
                    ELSE IF halted THEN Halts(g.tape)
                    ELSE /\ Followed(instruction, cap)
                         /\ LET e == execute(instruction, g.cell, d, g.tape, b)
                            IN  IF e.panic THEN Panics(instruction.op)
                                ELSE Returns(e, instruction.op)

Step == StepWith(MaxPtr)

\* BrainfuckProgram::reset
Reset ==
    /\ phase = "ready"
    /\ in_run = "no"
    /\ data_pointer' = 0
    /\ instruction_pointer' = 0
    /\ tape' = tape_reset(tape)
    /\ last' = [call |-> "reset"]
    /\ just_reset' = TRUE
    /\ UNCHANGED <<source, build, phase, error, instructions, tape_kind, out,
                   in_seq, in_pos, in_run, runs>>

\* the caller calls BrainfuckProgram::run, with a sink that has received
\* nothing and the source at its first byte; the steps of its loop follow
Run ==
    /\ phase = "ready"
    /\ in_run = "no"
    /\ in_run' = IF just_reset THEN "fresh" ELSE "stale"
    /\ runs' = IF just_reset THEN runs ELSE <<>>
    /\ out' = <<>>
    /\ in_pos' = 0
    /\ last' = [call |-> "run",
                halted |-> last.call = "step" /\ last.ret = "halted"]
    /\ UNCHANGED <<source, build, phase, error, instructions, instruction_pointer,
                   data_pointer, tape_kind, tape, in_seq, just_reset>>

Next == Compile \/ Step \/ Reset \/ Run

Spec == Init /\ [][Next]_vars

\* compile alone, of every text
SpecCompile == Init /\ [][CompileAny]_vars

(***************************************************************************)
(* The execution of LoopProgram on a zeroed growing tape.                  *)
(***************************************************************************)
LoopProgram == <<"+", "[", ">", "+", "]">>

CompileLoop ==
    /\ phase = "new"
    /\ \E n \in 0..MaxCap, b_mode \in Builds :
            CompileWith(LoopProgram, "vec", Zeros(n), b_mode)

StepLoop == StepWith(LoopMaxPtr)

\* step is called again and again, as the loop of run does
SpecLoop ==
    /\ Init
    /\ [][CompileLoop \/ StepLoop]_vars
    /\ WF_vars(CompileLoop)
    /\ WF_vars(StepLoop)

(***************************************************************************)
(* Standard bracket nesting, the reference the compiler is held against.   *)
(***************************************************************************)
\* the recognized characters of a text, in order
Recognized(input) == SelectSeq(input, LAMBDA c : c \in VALID_CHARS)

\* matching with a stack: partner[k] is the place of the bracket matching the
\* bracket at k, and 0 for an unmatched bracket and for any other character
RECURSIVE Nest(_, _, _, _)
Nest(rec, k, stack, partner) ==
    IF k > Len(rec) THEN partner
    ELSE IF rec[k] = "[" THEN Nest(rec, k + 1, <<k>> \o stack, partner)
    ELSE IF rec[k] = "]" /\ stack # <<>>
         THEN Nest(rec, k + 1, Tail(stack),
                   [partner EXCEPT ![k] = Head(stack), ![Head(stack)] = k])
         ELSE Nest(rec, k + 1, stack, partner)

Partner(rec) == Nest(rec, 1, <<>>, [k \in 1..Len(rec) |-> 0])

Unmatched(rec) ==
    {k \in 1..Len(rec) : rec[k] \in {"[", "]"} /\ Partner(rec)[k] = 0}

WellNested(input) == Unmatched(Recognized(input)) = {}

Compiled == phase \in {"ready", "panicked"}

(***************************************************************************)
(* C1.  compile returns a Program if and only if the brackets among the    *)
(* recognized characters of the text are properly nested; otherwise it     *)
(* returns one of the two errors and no Program.                           *)
(***************************************************************************)
C1_CompilesIffNested ==
    phase # "new" =>
        /\ Compiled <=> WellNested(source)
        /\ Compiled => error = NoError /\ Len(instructions) = Len(Recognized(source))
        /\ ~Compiled => /\ phase = "error"
                        /\ error.kind \in {"MissingClosingBrace", "MissingOpeningBrace"}
                        /\ instructions = <<>>

C1_Witness ==
    /\ phase = "ready"
    /\ Len(source) >= 4
    /\ source[1] = "[" /\ source[2] = "[" /\ source[3] = "]" /\ source[4] = "]"

(***************************************************************************)
(* C2.  In a compiled program the instruction at each `[`, at index i with *)
(* its matching `]` at index j, is JumpForward(j - i + 1).                 *)
(***************************************************************************)
C2_ForwardOffset ==
    Compiled =>
        LET rec == Recognized(source)
        IN  \A i \in 1..Len(rec) :
                rec[i] = "[" =>
                    instructions[i] = Instr("JumpForward", Partner(rec)[i] - i + 1)

C2_Witness ==
    /\ phase = "ready"
    /\ source = <<"[", "[", "]", "[", "]", "]">>
    /\ instructions[1] = Instr("JumpForward", 6)
    /\ instructions[4] = Instr("JumpForward", 2)

(***************************************************************************)
(* C3, as stated.  In a compiled program the instruction at each `]`, at   *)
(* index j with its matching `[` at index i, is JumpBackwards(j - i).      *)
(***************************************************************************)
C3_BackwardOffsetToOpener ==
    Compiled =>
        LET rec == Recognized(source)
        IN  \A j \in 1..Len(rec) :
                rec[j] = "]" =>
                    instructions[j] = Instr("JumpBackwards", j - Partner(rec)[j])

(***************************************************************************)
(* C3, amended.  The instruction at each `]`, at index j with its matching *)
(* `[` at index i, is JumpBackwards(j - i - 1): j minus the offset is      *)
(* i + 1, the index of the instruction after the matching `[`.             *)
(***************************************************************************)
C3_BackwardOffsetPastOpener ==
    Compiled =>
        LET rec == Recognized(source)
        IN  \A j \in 1..Len(rec) :
                rec[j] = "]" =>
                    instructions[j] = Instr("JumpBackwards", j - Partner(rec)[j] - 1)

C3_Witness ==
    /\ phase = "ready"
    /\ source = <<"[", "[", "]", "[", "]", "]">>
    /\ instructions[6] = Instr("JumpBackwards", 4)
    /\ instructions[3] = Instr("JumpBackwards", 0)

(***************************************************************************)
(* C4.  When a text has unmatched brackets, compile returns the error for  *)
(* the first of them in source order: MissingClosingBrace with its span    *)
(* for a `[`, MissingOpeningBrace with its span for a `]`; "[" gives       *)
(* MissingClosingBrace and "]" and "][" give MissingOpeningBrace, each at  *)
(* line 0, character 1.                                                    *)
(***************************************************************************)
Min(S) == CHOOSE x \in S : \A y \in S : x <= y

C4_FirstUnmatched ==
    /\ phase # "new" /\ ~WellNested(source) =>
          LET rec == Recognized(source)
              k == Min(Unmatched(rec))
              span == parse_input(source)[k]
          IN  /\ phase = "error"
              /\ error.kind = IF rec[k] = "[" THEN "MissingClosingBrace"
                              ELSE "MissingOpeningBrace"
              /\ error.line = span.line
              /\ error.character = span.character
    /\ phase # "new" /\ source = <<"[">> =>
          error = [kind |-> "MissingClosingBrace", line |-> 0, character |-> 1]
    /\ phase # "new" /\ source \in {<<"]">>, <<"]", "[">>} =>
          error = [kind |-> "MissingOpeningBrace", line |-> 0, character |-> 1]

C4_Witness ==
    /\ phase = "error"
    /\ source = <<"[", "]", "]", "[">>
    /\ error = [kind |-> "MissingOpeningBrace", line |-> 0, character |-> 3]

Moves == {"IncrementDataPointer", "DecrementDataPointer"}

(***************************************************************************)
(* C5.  Whenever the instruction pointer is at or past the end of the      *)
(* instruction list, step returns the halted signal and does not fault,    *)
(* whatever the data pointer and the tape.                                 *)
(***************************************************************************)
C5_PastEndHalts ==
    last.call = "step" /\ last.ip >= Len(instructions) => last.ret = "halted"

(***************************************************************************)
(* C6.  On a fixed-capacity tape a step at a pointer move (`>` or `<`)     *)
(* does not fault, also when the data pointer is at or past the capacity   *)
(* (the decrement of a data pointer of 0 is left aside).                   *)
(***************************************************************************)
C6_MoveNeverFaults ==
    /\ last.call = "step"
    /\ tape_kind = "array"
    /\ last.op \in Moves
    /\ ~(last.op = "DecrementDataPointer" /\ last.dp = 0)
    => last.ret # "panic"

(***************************************************************************)
(* C7.  reset leaves the instruction pointer at 0, the data pointer at 0   *)
(* and every cell of the tape at zero, and the instruction list (and the   *)
(* length of the tape) as they were before it.                             *)
(***************************************************************************)
C7_ResetRestores ==
    [][last'.call = "reset" =>
            /\ instruction_pointer' = 0
            /\ data_pointer' = 0
            /\ \A k \in 1..Len(tape') : tape'[k] = zero
            /\ Len(tape') = Len(tape)
            /\ instructions' = instructions]_vars

\* a reset after a completed run that left a cell other than zero
C7_Witness ==
    /\ last.call = "reset"
    /\ instructions # <<>>
    /\ runs # <<>>
    /\ \E k \in 1..Len(runs[Len(runs)].tape) : runs[Len(runs)].tape[k] # zero
    /\ runs[Len(runs)].ip > 0
    /\ \A k \in 1..Len(tape) : tape[k] = zero

(***************************************************************************)
(* C8.  reset then run, twice in a row with the same input bytes, gives    *)
(* the same output and the same final instruction pointer, data pointer    *)
(* and cells both times.                                                   *)
(***************************************************************************)
C8_SameTwice ==
    Len(runs) = 2 => runs[1] = runs[2]

(***************************************************************************)
(* C9.  The execution of `+[>+]` from a zeroed growing tape never halts:   *)
(* the instruction pointer stays below the instruction count, no step      *)
(* returns the halted signal (or faults), and the data pointer never       *)
(* falls and passes every bound.                                           *)
(***************************************************************************)
C9_LoopNeverHalts ==
    /\ [](phase # "new" =>
            /\ phase = "ready"
            /\ instruction_pointer < Len(instructions)
            /\ last.call = "step" => last.ret = "ok")
    /\ [][data_pointer' >= data_pointer]_vars
    /\ <>(data_pointer >= LoopMaxPtr)

C9_Witness ==
    /\ phase = "ready"
    /\ source = LoopProgram
    /\ data_pointer = LoopMaxPtr
    /\ Len(tape) = LoopMaxPtr + 1
    /\ last.call = "step" /\ last.op = "JumpBackwards" /\ last.ip = 4
    /\ instruction_pointer = 2

(***************************************************************************)
(* C10.  compile of the empty text gives an empty instruction list with    *)
(* both pointers at 0, and run on it returns when its first step reports   *)
(* halted, the sink and the source never called, for any supplied tape.    *)
(***************************************************************************)
C10_EmptyProgram ==
    phase # "new" /\ source = <<>> =>
        /\ phase = "ready"
        /\ instructions = <<>>
        /\ instruction_pointer = 0
        /\ data_pointer = 0
        /\ out = <<>>
        /\ in_pos = 0
        /\ last.call = "step" => last.ret = "halted"
        /\ last.call = "step" => in_run = "no"

(***************************************************************************)
(* C11.  The result of compile depends only on the recognized characters   *)
(* of the text: compile of a text and compile of the text with every       *)
(* other character removed (line breaks too) both succeed with the same    *)
(* instruction list, or both fail with the same kind of error.             *)
(***************************************************************************)
C11_OnlyRecognizedCount ==
    phase # "new" =>
        LET r == compile(Recognized(source))
        IN  /\ Compiled <=> r.ok
            /\ Compiled => instructions = r.val
            /\ ~Compiled => error.kind = r.kind

\* a text with a skipped character, a line feed and a carriage return
\* between the instructions of a loop
C11_Witness ==
    /\ phase = "ready"
    /\ Len(source) > Len(Recognized(source))
    /\ \E i, j \in 1..Len(source) :
          /\ i < j
          /\ source[i] = "[" /\ source[j] = "]"
          /\ \E k \in (i + 1)..(j - 1) : source[k] \in {"x", "\n", "\r"}
    /\ instructions = <<Instr("JumpForward", 2), Instr("JumpBackwards", 0)>>

(***************************************************************************)
(* C12.  The span of a compile error gives the raw position of the         *)
(* offending bracket: its line is the number of line terminators before    *)
(* the bracket, and its character is the 1-based column of the bracket in  *)
(* its line, every character of the line counted, from 1 on each line.     *)
(***************************************************************************)
\* the place in the text of its k-th recognized character
RECURSIVE RawPlace(_, _, _)
RawPlace(input, p, k) ==
    IF input[p] \in VALID_CHARS
    THEN IF k = 1 THEN p ELSE RawPlace(input, p + 1, k - 1)
    ELSE RawPlace(input, p + 1, k)

LineFeedsBefore(input, p) == {q \in 1..(p - 1) : input[q] = "\n"}

Max0(S) == IF S = {} THEN 0 ELSE CHOOSE x \in S : \A y \in S : y <= x

C12_SpanIsRawPosition ==
    phase = "error" =>
        LET rec == Recognized(source)
            p == RawPlace(source, 1, Min(Unmatched(rec)))
        IN  /\ error.line = Cardinality(LineFeedsBefore(source, p))
            /\ error.character = p - Max0(LineFeedsBefore(source, p))

\* an unmatched bracket on the second line, after a skipped character
C12_Witness ==
    /\ phase = "error"
    /\ source = <<"+", "\n", "x", "]">>
    /\ error = [kind |-> "MissingOpeningBrace", line |-> 1, character |-> 2]

(***************************************************************************)
(* C13.  The sink is called once by every executed Output, with the value  *)
(* of the cell at the data pointer, and by no other instruction; the       *)
(* source is called once by every executed Input, and by no other          *)
(* instruction, and the value it gives becomes the value of the cell at    *)
(* the data pointer.                                                       *)
(***************************************************************************)
\* the value of the cell of tape t at index: a growing tape holds zero where
\* it has not been written
CellAt(t, index) == IF index < Len(t) THEN t[index + 1] ELSE zero

Executes(op) == last'.call = "step" /\ last'.ret = "ok" /\ last'.op = op

C13_SinkAndSource ==
    [][last'.call = "step" =>
          /\ out' = IF Executes("Output")
                    THEN Append(out, CellAt(tape, data_pointer))
                    ELSE out
          /\ in_pos' = IF Executes("Input") THEN in_pos + 1 ELSE in_pos
          /\ Executes("Input") =>
                /\ data_pointer < Len(tape')
                /\ tape'[data_pointer + 1] = in_seq'[in_pos + 1]]_vars

(***************************************************************************)
(* C14.  A step that executes an instruction that is no jump, a            *)
(* JumpForward on a non-zero cell or a JumpBackwards on a zero cell adds 1 *)
(* to the instruction pointer; a JumpForward on a zero cell adds its       *)
(* offset and a JumpBackwards on a non-zero cell subtracts its offset, and *)
(* no 1 is added; every jump step leaves the data pointer and the value of *)
(* every cell as they were.                                                *)
(***************************************************************************)
Jumps == {"JumpForward", "JumpBackwards"}

SameCells(t, u) ==
    \A index \in 0..(Len(t) + Len(u)) : CellAt(t, index) = CellAt(u, index)

C14_PointerAdvance ==
    [][last'.call = "step" /\ last'.ret = "ok" =>
          LET instruction == instructions[instruction_pointer + 1]
              d == CellAt(tape, data_pointer)
              taken == \/ instruction.op = "JumpForward" /\ d = zero
                       \/ instruction.op = "JumpBackwards" /\ d # zero
          IN  /\ ~taken => instruction_pointer' = instruction_pointer + 1
              /\ taken /\ instruction.op = "JumpForward" =>
                    instruction_pointer' = instruction_pointer + instruction.offset
              /\ taken /\ instruction.op = "JumpBackwards" =>
                    instruction_pointer' = instruction_pointer - instruction.offset
              /\ instruction.op \in Jumps =>
                    /\ data_pointer' = data_pointer
                    /\ SameCells(tape, tape')]_vars

(***************************************************************************)
(* The tapes on their own: get_data_at_mut called again and again on a     *)
(* tape, at small indexes and at the largest ones.                         *)
(***************************************************************************)
\* the tapes a caller may build, of any cell values
TapeValues == SeqsUpTo(InitCells, MaxCap)

\* the indexes of the accesses
Indexes == 0..MaxIndex \cup {ISIZE_MAX, USIZE_MAX}

\* a tape of some type is built
NewTape ==
    /\ phase = "new"
    /\ \E kind \in TapeKinds, t \in TapeValues, b_mode \in Builds :
          /\ tape_kind' = kind
          /\ tape' = t
          /\ build' = b_mode
    /\ phase' = "ready"
    /\ last' = [call |-> "new"]
    /\ UNCHANGED <<source, error, instructions, instruction_pointer, data_pointer,
                   out, in_seq, in_pos, in_run, just_reset, runs>>

\* Tape::get_data_at_mut(index) on the tape
GetDataAtMut ==
    /\ phase = "ready"
    /\ \E index \in Indexes :
          LET g == get_data_at_mut(tape_kind, tape, index, build)
          IN  /\ tape' = g.tape
              /\ phase' = IF g.cell = "panic" THEN "panicked" ELSE "ready"
              /\ last' = [call |-> "get_data_at_mut", index |-> index,
                          ret |-> g.cell]
    /\ UNCHANGED <<source, build, error, instructions, instruction_pointer,
                   data_pointer, tape_kind, out, in_seq, in_pos, in_run,
                   just_reset, runs>>

SpecTape == Init /\ [][NewTape \/ GetDataAtMut]_vars

(***************************************************************************)
(* C15.  A tape of fixed capacity gives no cell at any index at or past    *)
(* its capacity and never changes its size; a growing tape gives a cell at *)
(* every index, and an access past its length extends it with zero cells   *)
(* up to that index and leaves every cell it had unchanged.                *)
(***************************************************************************)
C15_TapeAccess ==
    [][last'.call = "get_data_at_mut" =>
          LET index == last'.index
          IN  /\ tape_kind = "array" =>
                    /\ Len(tape') = Len(tape)
                    /\ index >= Len(tape) => last'.ret = "none"
              /\ tape_kind = "vec" =>
                    /\ last'.ret = "some"
                    /\ index < Len(tape')
                    /\ tape' = tape \o Zeros(Len(tape') - Len(tape))
                    /\ index >= Len(tape) => Len(tape') = index + 1]_vars

(***************************************************************************)
(* The execution of WrapProgram on a tape of two cells that hold the same  *)
(* value, any value of a u8: the program works on the first cell and the   *)
(* second keeps the value the first began with.                            *)
(***************************************************************************)
\* the number of values of a u8
U8_RANGE == 256

WrapProgram == <<"+", "-">>

CompileWrap ==
    /\ phase = "new"
    /\ \E c \in 0..(U8_RANGE - 1), kind \in TapeKinds, b_mode \in Builds :
            CompileWith(WrapProgram, kind, <<c, c>>, b_mode)

SpecWrap == Init /\ [][CompileWrap \/ Step]_vars

\* what an IncreaseData step makes of the value of its cell (lib.rs:279-281)
IncreaseStep == [d \in 0..(U8_RANGE - 1) |-> increase(d)]

\* the steps f, then the steps g
Then(f, g) == [d \in DOMAIN f |-> g[f[d]]]

\* the steps f in a row, 2^k times
RECURSIVE Doubled(_, _)
Doubled(f, k) == IF k = 0 THEN f ELSE Doubled(Then(f, f), k - 1)

\* U8_RANGE = 2^8 IncreaseData steps in a row on a cell
IncreaseSteps == Doubled(IncreaseStep, 8)

(***************************************************************************)
(* C16.  For u8 cells an IncreaseData step on a cell holding 255 leaves it *)
(* at 0 and a DecreaseData step on a cell holding 0 leaves it at 255, and  *)
(* neither faults; an IncreaseData step followed by a DecreaseData step    *)
(* restores the value of the cell, and so do 256 IncreaseData steps in a   *)
(* row.                                                                    *)
(***************************************************************************)
C16_WrapAround ==
    phase # "new" =>
        /\ phase = "ready"
        /\ data_pointer = 0
        /\ instruction_pointer = 0 =>
              /\ tape[1] = tape[2]
              /\ IncreaseSteps[tape[1]] = tape[1]
        /\ instruction_pointer = 1 /\ tape[2] = 255 => tape[1] = 0
        /\ instruction_pointer = 2 /\ tape[2] = 255 => tape[1] = 255
        /\ instruction_pointer = 2 => tape[1] = tape[2]

\* the cell held 255, was increased to 0 and decreased to 255 again
C16_Witness ==
    /\ phase = "ready"
    /\ instruction_pointer = 2
    /\ last.call = "step" /\ last.ret = "ok" /\ last.op = "DecreaseData"
    /\ tape = <<255, 255>>

(***************************************************************************)
(* The execution of programs on a zeroed growing tape, and the reference   *)
(* interpreter beside it: it works on the text, finds the partner of a     *)
(* bracket by matching with a stack, and its tape has the cells 0, 1, ..., *)
(* all zero at first, as many as a Vec can hold.  It has no move to the    *)
(* left of cell 0: from there on it says nothing of the execution.         *)
(***************************************************************************)
\* the programs executed beside the reference: the short ones, and longer ones
\* of loops
LoopPrograms == Programs \cup SeqsUpTo({"+", "-", "[", "]"}, MaxNest)

CompileZeroed ==
    /\ phase = "new"
    /\ \E input \in LoopPrograms, n \in 0..MaxCap, b_mode \in Builds :
            CompileWith(input, "vec", Zeros(n), b_mode)

SpecRef == Init /\ [][CompileZeroed \/ Step]_vars

\* where the reference is, seen from the state of the program
RefNow ==
    [defined |-> TRUE, ip |-> instruction_pointer, dp |-> data_pointer,
     tape |-> tape, out |-> out, in_pos |-> in_pos]

RefWrite(t, dp, v) ==
    LET grown == t \o Zeros(IF dp < Len(t) THEN 0 ELSE dp + 1 - Len(t))
    IN  [grown EXCEPT ![dp + 1] = v]

\* one step of the reference on the text rec, from c, with the bytes of input
RefStep(rec, c, input) ==
    LET ch == rec[c.ip + 1]
        d == CellAt(c.tape, c.dp)
        next == [c EXCEPT !.ip = c.ip + 1]
    IN  CASE ch = ">" -> [next EXCEPT !.dp = c.dp + 1]
          [] ch = "<" -> IF c.dp = 0 THEN [c EXCEPT !.defined = FALSE]
                         ELSE [next EXCEPT !.dp = c.dp - 1]
          [] ch = "+" -> [next EXCEPT !.tape = RefWrite(c.tape, c.dp, (d + 1) % 256)]
          [] ch = "-" -> [next EXCEPT !.tape = RefWrite(c.tape, c.dp, (d + 255) % 256)]
          [] ch = "." -> [next EXCEPT !.out = Append(c.out, d)]
          [] ch = "," -> [next EXCEPT !.tape = RefWrite(c.tape, c.dp, input[c.in_pos + 1]),
                                      !.in_pos = c.in_pos + 1]
          [] ch = "[" -> IF d = 0 THEN [c EXCEPT !.ip = Partner(rec)[c.ip + 1]]
                         ELSE next
          [] ch = "]" -> IF d # 0 THEN [c EXCEPT !.ip = Partner(rec)[c.ip + 1] - 1]
                         ELSE next

\* the reference at c and the program after its step agree
Agree(c) ==
    /\ c.defined
    /\ instruction_pointer' = c.ip
    /\ data_pointer' = c.dp
    /\ out' = c.out
    /\ in_pos' = c.in_pos
    /\ SameCells(tape', c.tape)

(***************************************************************************)
(* C17.  For every well-bracketed program and every input, the execution   *)
(* by step on a zeroed growing tape agrees with the reference: they begin  *)
(* alike, the program halts exactly where the reference halts, and every   *)
(* step of the program is a step of the reference, or two of them when `]` *)
(* returns to its `[`, which the reference then enters; so they give the   *)
(* same output and, on halting, the same data pointer and cells.           *)
(***************************************************************************)
C17_AgreesWithReference ==
    [][/\ last'.call = "compile" /\ phase' = "ready" =>
             /\ instruction_pointer' = 0 /\ data_pointer' = 0 /\ out' = <<>>
             /\ SameCells(tape', <<>>)
       /\ last'.call = "step" /\ data_pointer < ISIZE_MAX =>
             LET rec == Recognized(source)
                 c == RefNow
             IN  IF c.ip = Len(rec)
                 THEN last'.ret = "halted" /\ Agree(c)
                 ELSE LET r == RefStep(rec, c, in_seq')
                          returns == rec[c.ip + 1] = "]" /\ r.ip < c.ip
                      IN  r.defined =>
                            /\ last'.ret = "ok"
                            /\ Agree(IF returns THEN RefStep(rec, r, in_seq')
                                     ELSE r)]_vars

\* a loop was entered, left at its `]` with the cell at zero, and the program
\* has halted
C17_Witness ==
    /\ source = <<"-", "[", "+", "]">>
    /\ last.call = "step" /\ last.ret = "halted"
    /\ instruction_pointer = 4
    /\ tape[1] = 0

(***************************************************************************)
(* C18.  In every state of a compiled program started at instruction       *)
(* pointer 0 the instruction pointer is between 0 and the number of        *)
(* instructions: no JumpBackwards has an offset above its own index, so a  *)
(* taken one never underflows, no JumpForward reaches beyond one past the  *)
(* last instruction, and a step returns halted only with the instruction   *)
(* pointer equal to the number of instructions.                            *)
(***************************************************************************)
C18_PointerInRange ==
    Compiled =>
        /\ instruction_pointer \in 0..Len(instructions)
        /\ \A k \in 1..Len(instructions) :
              /\ instructions[k].op = "JumpBackwards" =>
                    instructions[k].offset <= k - 1
              /\ instructions[k].op = "JumpForward" =>
                    (k - 1) + instructions[k].offset <= Len(instructions)
        /\ last.call = "step" /\ last.ret = "halted" =>
              instruction_pointer = Len(instructions)

\* a JumpBackwards was taken, back into its loop
C18_Witness ==
    /\ phase = "ready"
    /\ last.call = "step" /\ last.ret = "ok" /\ last.op = "JumpBackwards"
    /\ last.ip = 2
    /\ instruction_pointer = 1

(***************************************************************************)
(* C19.  Halted lasts until reset: once a step has returned halted, every  *)
(* later step returns halted too, calls neither sink nor source, and       *)
(* leaves the instruction pointer, the data pointer, the instructions and  *)
(* the value of every cell as they were (a growing tape may only get more  *)
(* zero cells); run on a halted program returns at once.                   *)
(***************************************************************************)
\* the last step returned halted, and at most the call of run came after it
HaltedBefore ==
    \/ last.call = "step" /\ last.ret = "halted"
    \/ last.call = "run" /\ last.halted

C19_HaltedAbsorbing ==
    [][HaltedBefore /\ last'.call = "step" =>
          /\ last'.ret = "halted"
          /\ in_run' = "no"
          /\ out' = out /\ in_pos' = in_pos
          /\ instruction_pointer' = instruction_pointer
          /\ data_pointer' = data_pointer
          /\ instructions' = instructions
          /\ tape_kind = "array" => tape' = tape
          /\ Len(tape') >= Len(tape) /\ SameCells(tape, tape')]_vars

====
